---- MODULE Spec2Model ----
(***************************************************************************)
(* VirtualQ ticket lifecycle: the Ticket Service of the API design          *)
(* (CreateTicket, TransitionTicket, the forward of a ticket to another      *)
(* queue), the sqlc queries it runs and the tables of database/schema.sql   *)
(* they act on.                                                             *)
(*                                                                          *)
(* Each request is served by its own handler goroutine; the database calls  *)
(* a handler makes are the points at which handlers interleave.  A handler  *)
(* is therefore a small process: pc "idle" (no request), "validated" (the   *)
(* ticket was read and the transition validated), "begun" (after BEGIN),    *)
(* "updated" (inside the transaction, after UPDATE tickets), "recorded"     *)
(* (after INSERT INTO ticket_state_history), "done" (the service call       *)
(* returned its result).                                                    *)
(*                                                                          *)
(* Spec is the ticket core.  The other operations are studied each with     *)
(* the part of the core they touch: SpecRegistry (type definitions),        *)
(* SpecCancel (cancel), SpecQueue (reorder and the order of a listing),     *)
(* SpecAssign (assignment of an employee), SpecItems (ticket items),        *)
(* SpecDisabled (disabled queues), SpecFair (termination of a request),     *)
(* SpecOperations (the operations on a ticket's row), SpecTenancy (both     *)
(* tenants' employees), SpecRetry (a transition sent again after a storage  *)
(* error), SpecSchemaChange (updates of a type's state machine).            *)
(***************************************************************************)
EXTENDS Integers, Sequences, FiniteSets, TLC

VARIABLES
    type_definitions,   \* TypeDefinition table: id -> row
    queues,             \* Queue table: id -> row
    tickets,            \* Ticket table: sequence of rows, serial id = index
    history,            \* TicketStateHistory table: sequence of rows, in insertion order
    items,              \* TicketItem table: sequence of rows, serial id = index
    procs,              \* handler goroutines: process -> its request, position and result
    clock,              \* the database server's clock, as the number of transactions begun
    calls               \* number of operations started so far

vars == <<type_definitions, queues, tickets, history, items, procs, clock, calls>>

----------------------------------------------------------------------------
(* Bounds of the model. *)

MaxTickets == 2
MaxCalls == 3

(* Handler goroutines that may run at the same time. *)
Procs == {"h1", "h2"}

----------------------------------------------------------------------------
(* Values. *)

NULL == "NULL"

Tenants == {200, 201}

(* employee_id as the service receives it: 0 is Go's zero value of int64. *)
EmployeeIDs == {0, 500}

(* The food_order state machine of docs/api-use-cases.md. *)
FoodOrderFSM ==
    [ init |-> "received",
      states |-> {"received", "in_progress", "ready", "picked_up", "cancelled"},
      transitions |->
        { [name |-> "start_preparation", from |-> "received",    to |-> "in_progress"],
          [name |-> "mark_ready",        from |-> "in_progress", to |-> "ready"],
          [name |-> "pickup",            from |-> "ready",       to |-> "picked_up"],
          [name |-> "cancel_new",        from |-> "received",    to |-> "cancelled"] } ]

FoodOrderSchema == [required |-> {"order_type"}]

TypeDefinitionIDs == {300}

QueueIDs == {400, 401, 402}

(* Names a transition request may carry: the declared ones and one that no   *)
(* state machine declares.                                                   *)
TransitionNames == {tr.name : tr \in FoodOrderFSM.transitions} \cup {"complete"}

(* custom_data payloads, as the set of fields present. *)
Payloads == {{"order_type"}, {}}

----------------------------------------------------------------------------
(* Domain errors (internal/errors/errors.go). *)

ErrorTypeValidation == "validation_error"
ErrorTypeNotFound == "not_found"
ErrorTypeForbidden == "forbidden"
ErrorTypeConflict == "conflict"
ErrorTypeInternal == "internal_error"

NewValidationError(message, details) ==
    [type |-> ErrorTypeValidation, message |-> message, details |-> details]

NewNotFoundError(resource, id) ==
    [type |-> ErrorTypeNotFound, message |-> "not found",
     details |-> [resource |-> resource, id |-> id]]

NewForbiddenError(message) ==
    [type |-> ErrorTypeForbidden, message |-> message, details |-> [none |-> NULL]]

NewConflictError(message, details) ==
    [type |-> ErrorTypeConflict, message |-> message, details |-> details]

NewInternalError(err) ==
    [type |-> ErrorTypeInternal, message |-> "Internal server error",
     details |-> [err |-> err]]

(* A plain Go error (fmt.Errorf) of CreateTicket. *)
Errorf(message) ==
    [type |-> "error", message |-> message, details |-> [none |-> NULL]]

(* Go's nil error. *)
Nil == [type |-> "nil", message |-> "", details |-> [none |-> NULL]]

(* Mutant of Wrapf: the cause formatted with %v, so that it is not wrapped. *)
WrapfNoCause(message, err) ==
    [type |-> "error", message |-> message, details |-> [none |-> NULL]]

(* fmt.Errorf("message: %w", err): a plain Go error that wraps err. *)
Wrapf(message, err) ==
    [type |-> "error", message |-> message, details |-> [none |-> NULL], cause |-> err]

(* errors.As(err, &appErr): the first AppError in err's chain of wrapped      *)
(* errors, if there is one.                                                  *)
RECURSIVE AsAppError(_)
AsAppError(err) ==
    IF err.type \notin {"error", "nil"}
    THEN [found |-> TRUE, appErr |-> err]
    ELSE IF "cause" \in DOMAIN err
    THEN AsAppError(err.cause)
    ELSE [found |-> FALSE, appErr |-> Nil]

(* TicketHandler.mapErrorToResponse: the status code and the error name of   *)
(* the response; an error that is no AppError is an internal error.          *)
mapErrorToResponse(err) ==
    LET as == AsAppError(err) IN
    IF as.found /\ as.appErr.type = ErrorTypeValidation
    THEN [status |-> 400, Error |-> as.appErr.type, Message |-> as.appErr.message]
    ELSE IF as.found /\ as.appErr.type = ErrorTypeNotFound
    THEN [status |-> 404, Error |-> as.appErr.type, Message |-> as.appErr.message]
    ELSE IF as.found /\ as.appErr.type = ErrorTypeForbidden
    THEN [status |-> 403, Error |-> as.appErr.type, Message |-> as.appErr.message]
    ELSE IF as.found /\ as.appErr.type = ErrorTypeConflict
    THEN [status |-> 409, Error |-> as.appErr.type, Message |-> as.appErr.message]
    ELSE IF as.found /\ as.appErr.type = ErrorTypeInternal
    THEN [status |-> 500, Error |-> "internal_error", Message |-> "An internal error occurred"]
    ELSE [status |-> 500, Error |-> "internal_error", Message |-> "An unexpected error occurred"]

Ok(ticket, previous_state) ==
    [ok |-> TRUE, ticket |-> ticket, previous_state |-> previous_state]

Err(e) == [ok |-> FALSE, err |-> e]

----------------------------------------------------------------------------
(* Rows and pure helpers. *)

(* A Ticket row.  employee_id 0 stands for an unassigned ticket. *)
Ticket(id, queue_id, type_definition_id, tenant_id, current_state, custom_data) ==
    [ id |-> id, queue_id |-> queue_id, type_definition_id |-> type_definition_id,
      tenant_id |-> tenant_id, current_state |-> current_state, employee_id |-> 0,
      custom_data |-> custom_data ]

(* Go's zero Ticket, held by a handler that has read none. *)
NoTicket == Ticket(0, 0, 0, 0, "", {})

(* Mutant of AllowsTicketType: every queue accepts every type. *)
AllowsAnyTicketType(queue, typeDefinitionID) == TRUE

(* Queue.AllowsTicketType: membership in allowed_type_definition_ids. *)
AllowsTicketType(queue, typeDefinitionID) ==
    typeDefinitionID \in queue.allowed_type_definition_ids

(* validateCustomData: nil when every field the JSON Schema requires is      *)
(* present, otherwise a validation error naming the missing fields.          *)
validateCustomData(customData, schema) ==
    IF schema.required \subseteq customData
    THEN Nil
    ELSE NewValidationError("missing required field",
                            [fields |-> schema.required \ customData])

(* validateTransition(fsmSchema, currentState, transition) returns            *)
(* (valid, nextState, validTransitions): the transition of that name leaving  *)
(* currentState, and the names of all transitions leaving currentState.       *)
validateTransition(fsmSchema, currentState, transition) ==
    LET matching == {tr \in fsmSchema.transitions :
                        tr.name = transition /\ tr.from = currentState}
    IN  [ valid |-> matching # {},
          nextState |-> IF matching # {} THEN (CHOOSE tr \in matching : TRUE).to ELSE "",
          validTransitions |->
              {tr.name : tr \in {x \in fsmSchema.transitions : x.from = currentState}} ]

(* -- name: GetTicket :one   SELECT * FROM tickets WHERE id = $1 AND tenant_id = $2 *)
GetTicketFound(tk, id, tenantID) ==
    id \in 1..Len(tk) /\ tk[id].tenant_id = tenantID

(* Mutant of ListTicketsByQueue: ORDER BY created_at DESC. *)
ListTicketsNewestFirst(tk, queueID, tenantID, states) ==
    LET s == SelectSeq(tk, LAMBDA t : /\ t.queue_id = queueID
                                      /\ t.tenant_id = tenantID
                                      /\ t.current_state \in states)
    IN  [k \in 1..Len(s) |-> s[Len(s) + 1 - k]]

(* Mutant of ListTicketsByQueue: the queue_id filter is left out. *)
ListTicketsAnyQueue(tk, queueID, tenantID, states) ==
    SelectSeq(tk, LAMBDA t : t.tenant_id = tenantID /\ t.current_state \in states)

(* -- name: ListTicketsByQueue :many
   SELECT * FROM tickets WHERE queue_id = $1 AND tenant_id = $2
     AND current_state = ANY($3::text[]) ORDER BY created_at ASC
   The table is kept in the order of its INSERTs, which is the order of
   created_at. *)
ListTicketsByQueue(tk, queueID, tenantID, states) ==
    SelectSeq(tk, LAMBDA t : /\ t.queue_id = queueID
                             /\ t.tenant_id = tenantID
                             /\ t.current_state \in states)

(* Mutant of UpdateTicketQueue: the WHERE clause names the tenant only. *)
UpdateTicketQueueOfTenant(tk, queueID, id, tenantID) ==
    [i \in 1..Len(tk) |->
        IF tk[i].tenant_id = tenantID
        THEN [tk[i] EXCEPT !.queue_id = queueID]
        ELSE tk[i]]

(* The forward's write: UPDATE tickets SET queue_id = target. *)
UpdateTicketQueue(tk, queueID, id, tenantID) ==
    [i \in 1..Len(tk) |->
        IF tk[i].id = id /\ tk[i].tenant_id = tenantID
        THEN [tk[i] EXCEPT !.queue_id = queueID]
        ELSE tk[i]]

(* Mutant of UpdateTicketState: SET employee_id only, current_state forgotten. *)
UpdateTicketStateEmployeeOnly(tk, currentState, employeeID, id, tenantID) ==
    [i \in 1..Len(tk) |->
        IF tk[i].id = id /\ tk[i].tenant_id = tenantID
        THEN [tk[i] EXCEPT !.employee_id = employeeID]
        ELSE tk[i]]

(* -- name: UpdateTicketState :one
   UPDATE tickets SET current_state = $1, employee_id = $2, updated_at = NOW()
   WHERE id = $3 AND tenant_id = $4 *)
UpdateTicketState(tk, currentState, employeeID, id, tenantID) ==
    [i \in 1..Len(tk) |->
        IF tk[i].id = id /\ tk[i].tenant_id = tenantID
        THEN [tk[i] EXCEPT !.current_state = currentState, !.employee_id = employeeID]
        ELSE tk[i]]

(* RecordTransition(ticketID, from, to, ...): the TicketStateHistory row. *)
RecordTransition(ticketID, from, to, employeeID) ==
    [ ticket_id |-> ticketID, previous_state |-> from, new_state |-> to,
      changed_by_employee_id |-> employeeID ]

(* Mutant of InvalidTransitionError: a rejection of another error type. *)
UnknownTransitionError(currentState, transition, validTransitions) ==
    [ type |-> "unknown_transition", message |-> "Unknown transition",
      details |-> [ current_state |-> currentState,
                    attempted_transition |-> transition,
                    valid_transitions |-> validTransitions ] ]

(* Mutant of InvalidTransitionError: the valid transitions are left out. *)
InvalidTransitionErrorNoList(currentState, transition, validTransitions) ==
    NewConflictError("Invalid state transition",
        [ current_state |-> currentState,
          attempted_transition |-> transition,
          valid_transitions |-> {} ])

(* The rejection TransitionTicket returns when validateTransition says invalid. *)
InvalidTransitionError(currentState, transition, validTransitions) ==
    NewConflictError("Invalid state transition",
        [ current_state |-> currentState,
          attempted_transition |-> transition,
          valid_transitions |-> validTransitions ])

(* Mutant of NewTicket: CurrentState left at Go's zero value. *)
NewTicketZeroState(id, tenantID, req, typeDef) ==
    Ticket(id, req.QueueID, req.TypeDefinitionID, tenantID, "", req.CustomData)

(* The ticket CreateTicket builds (step 4: initial state from the FSM). *)
NewTicket(id, tenantID, req, typeDef) ==
    Ticket(id, req.QueueID, req.TypeDefinitionID, tenantID,
           typeDef.fsm_schema.init, req.CustomData)

(* TicketRepository.Create: INSERT INTO tickets (...) RETURNING *. *)
InsertTicket(tk, ticket) == Append(tk, ticket)

(* Mutant of InsertHistory: the audit row is not written. *)
InsertHistoryDropped(h, row, now) == h

(* Mutant of InsertHistory: the row takes the place of the latest one. *)
InsertHistoryReplacing(h, row, now) ==
    IF h = <<>> THEN <<row>> ELSE [h EXCEPT ![Len(h)] = row]

(* INSERT INTO ticket_state_history (...).  created_at is not in the column   *)
(* list: it takes its DEFAULT (now()), the start time of the transaction.     *)
InsertHistory(h, row, now) ==
    Append(h, [ ticket_id |-> row.ticket_id, previous_state |-> row.previous_state,
                new_state |-> row.new_state,
                changed_by_employee_id |-> row.changed_by_employee_id,
                created_at |-> now ])

----------------------------------------------------------------------------
(* Handlers. *)

NoReq == [none |-> NULL]

NoResult == Err(Errorf("none"))

IdleProc ==
    [ pc |-> "idle", op |-> "none", tenantID |-> 0, req |-> NoReq,
      ticket |-> NoTicket, nextState |-> "", txTime |-> 0, result |-> NoResult ]

Done(p, op, tenantID, req, ticket, result) ==
    procs' = [procs EXCEPT ![p] =
        [ pc |-> "done", op |-> op, tenantID |-> tenantID, req |-> req,
          ticket |-> ticket, nextState |-> "", txTime |-> 0, result |-> result ]]

Init ==
    /\ type_definitions =
         [id \in TypeDefinitionIDs |->
            [ id |-> id, tenant_id |-> 200, type_code |-> "food_order",
              custom_fields_schema |-> FoodOrderSchema,
              fsm_schema |-> FoodOrderFSM, is_active |-> TRUE ]]
    /\ queues =
         [id \in QueueIDs |->
            [ id |-> id,
              tenant_id |-> IF id = 401 THEN 201 ELSE 200,
              allowed_type_definition_ids |-> IF id = 401 THEN {302} ELSE {300},
              is_active |-> TRUE ]]
    /\ tickets = <<>>
    /\ history = <<>>
    /\ items = <<>>
    /\ procs = [p \in Procs |-> IdleProc]
    /\ clock = 1
    /\ calls = 0

(* Mutant of DisableQueue: the tickets of the queue are closed with it. *)
DisableQueueClosingTickets(q) ==
    /\ queues[q].is_active
    /\ calls < MaxCalls
    /\ calls' = calls + 1
    /\ queues' = [queues EXCEPT ![q].is_active = FALSE]
    /\ tickets' = [i \in 1..Len(tickets) |->
                     IF tickets[i].queue_id = q
                     THEN [tickets[i] EXCEPT !.current_state = "cancelled"]
                     ELSE tickets[i]]
    /\ UNCHANGED <<type_definitions, items, history, procs, clock>>

(* POST /queues/{id}/disable and /enable. *)
DisableQueue(q) ==
    /\ queues[q].is_active
    /\ calls < MaxCalls
    /\ calls' = calls + 1
    /\ queues' = [queues EXCEPT ![q].is_active = FALSE]
    /\ UNCHANGED <<type_definitions, items, tickets, history, procs, clock>>

EnableQueue(q) ==
    /\ ~queues[q].is_active
    /\ calls < MaxCalls
    /\ calls' = calls + 1
    /\ queues' = [queues EXCEPT ![q].is_active = TRUE]
    /\ UNCHANGED <<type_definitions, items, tickets, history, procs, clock>>

(* TicketService.CreateTicket.  Its reads are of configuration no handler     *)
(* writes and its one write is a single INSERT, so the call is one step.      *)
(* inserted = FALSE is a storage failure of that INSERT.                      *)
CreateTicket(p, tenantID, req, inserted) ==
    /\ procs[p].pc = "idle"
    /\ calls < MaxCalls
    /\ Len(tickets) < MaxTickets
    /\ calls' = calls + 1
    /\ LET fail(e) == /\ Done(p, "CreateTicket", tenantID, req, NoTicket, Err(e))
                      /\ UNCHANGED tickets
       IN
       IF req.TypeDefinitionID \notin DOMAIN type_definitions
       THEN fail(Wrapf("type definition not found",
                       NewNotFoundError("type definition", req.TypeDefinitionID)))
       ELSE LET typeDef == type_definitions[req.TypeDefinitionID]
                err == validateCustomData(req.CustomData, typeDef.custom_fields_schema)
            IN
       IF err.type # Nil.type
       THEN fail(Wrapf("invalid custom data", err))
       ELSE IF req.QueueID \notin DOMAIN queues
       THEN fail(Wrapf("queue not found", NewNotFoundError("queue", req.QueueID)))
       ELSE IF ~AllowsTicketType(queues[req.QueueID], req.TypeDefinitionID)
       THEN fail(Errorf("queue does not accept this ticket type"))
       ELSE IF ~inserted
       THEN fail(Wrapf("failed to create ticket", Errorf("insert")))
       ELSE LET ticket == NewTicket(Len(tickets) + 1, tenantID, req, typeDef) IN
            /\ tickets' = InsertTicket(tickets, ticket)
            /\ Done(p, "CreateTicket", tenantID, req, ticket, Ok(ticket, NULL))
    /\ UNCHANGED <<type_definitions, items, queues, history, clock>>

(* TicketService.TransitionTicket up to the validation: GetByID, the tenant   *)
(* check, the type definition and validateTransition.  A rejected request     *)
(* returns here; a valid one goes on to UpdateState.                          *)
TransitionTicket(p, tenantID, ticketID, transition, employeeID) ==
    LET req == [TicketID |-> ticketID, Transition |-> transition, EmployeeID |-> employeeID]
        reject(ticket, e) == Done(p, "TransitionTicket", tenantID, req, ticket, Err(e))
    IN
    /\ procs[p].pc = "idle"
    /\ calls < MaxCalls
    /\ calls' = calls + 1
    /\ IF ~GetTicketFound(tickets, ticketID, tenantID)
       THEN reject(NoTicket, NewNotFoundError("ticket", ticketID))
       ELSE LET ticket == tickets[ticketID] IN
       IF ticket.tenant_id # tenantID
       THEN reject(ticket, NewForbiddenError("Access denied"))
       ELSE IF ticket.type_definition_id \notin DOMAIN type_definitions
       THEN reject(ticket, NewNotFoundError("type definition", ticket.type_definition_id))
       ELSE LET typeDef == type_definitions[ticket.type_definition_id]
                v == validateTransition(typeDef.fsm_schema, ticket.current_state, transition)
            IN
            IF ~v.valid
            THEN reject(ticket,
                    InvalidTransitionError(ticket.current_state, transition, v.validTransitions))
            ELSE procs' = [procs EXCEPT ![p] =
                    [ pc |-> "validated", op |-> "TransitionTicket", tenantID |-> tenantID,
                      req |-> req, ticket |-> ticket, nextState |-> v.nextState,
                      txTime |-> 0, result |-> NoResult ]]
    /\ UNCHANGED <<type_definitions, items, queues, tickets, history, clock>>

(* TicketRepository.UpdateState: BEGIN; UPDATE tickets; INSERT INTO           *)
(* ticket_state_history; COMMIT.  BEGIN fixes the transaction's now(); the    *)
(* UPDATE takes the row's lock, which the transaction holds until it ends;    *)
(* its writes are visible to the other handlers from the COMMIT on.           *)
HoldsRowLock(q, ticketID) ==
    /\ procs[q].pc \in {"updated", "recorded"}
    /\ procs[q].req.TicketID = ticketID

UpdateState_Begin(p) ==
    /\ procs[p].pc = "validated"
    /\ procs' = [procs EXCEPT ![p].pc = "begun", ![p].txTime = clock]
    /\ clock' = clock + 1
    /\ UNCHANGED <<type_definitions, items, queues, tickets, history, calls>>

UpdateState_Update(p) ==
    /\ procs[p].pc = "begun"
    /\ \A q \in Procs \ {p} : ~HoldsRowLock(q, procs[p].req.TicketID)
    /\ procs' = [procs EXCEPT ![p].pc = "updated"]
    /\ UNCHANGED <<type_definitions, items, queues, tickets, history, clock, calls>>

UpdateState_Record(p) ==
    /\ procs[p].pc = "updated"
    /\ procs' = [procs EXCEPT ![p].pc = "recorded"]
    /\ UNCHANGED <<type_definitions, items, queues, tickets, history, clock, calls>>

(* Mutant of UpdateState_Commit: the row the handler read is saved whole,      *)
(* with the new state and employee, instead of the two columns of the UPDATE. *)
UpdateState_CommitRowRead(p) ==
    LET r == procs[p]
        updated == [tickets EXCEPT ![r.req.TicketID] =
                       [r.ticket EXCEPT !.current_state = r.nextState,
                                        !.employee_id = r.req.EmployeeID]]
    IN
    /\ r.pc = "recorded"
    /\ tickets' = updated
    /\ history' = InsertHistory(history,
                     RecordTransition(r.req.TicketID, r.ticket.current_state,
                                      r.nextState, r.req.EmployeeID),
                     r.txTime)
    /\ Done(p, r.op, r.tenantID, r.req, r.ticket,
            Ok(updated[r.req.TicketID], r.ticket.current_state))
    /\ UNCHANGED <<type_definitions, items, queues, clock, calls>>

UpdateState_Commit(p) ==
    LET r == procs[p]
        updated == UpdateTicketState(tickets, r.nextState, r.req.EmployeeID,
                                     r.req.TicketID, r.tenantID)
    IN
    /\ r.pc = "recorded"
    /\ tickets' = updated
    /\ history' = InsertHistory(history,
                     RecordTransition(r.req.TicketID, r.ticket.current_state,
                                      r.nextState, r.req.EmployeeID),
                     r.txTime)
    /\ Done(p, r.op, r.tenantID, r.req, r.ticket,
            Ok(updated[r.req.TicketID], r.ticket.current_state))
    /\ UNCHANGED <<type_definitions, items, queues, clock, calls>>

(* Mutant of UpdateState_Fail: a failure after the UPDATE leaves the UPDATE   *)
(* applied instead of rolling it back.                                        *)
UpdateState_FailNoRollback(p) ==
    LET r == procs[p] IN
    /\ r.pc \in {"validated", "begun", "updated", "recorded"}
    /\ tickets' = IF r.pc \in {"updated", "recorded"}
                  THEN UpdateTicketState(tickets, r.nextState, r.req.EmployeeID,
                                         r.req.TicketID, r.tenantID)
                  ELSE tickets
    /\ Done(p, r.op, r.tenantID, r.req, r.ticket, Err(NewInternalError("failed")))
    /\ UNCHANGED <<type_definitions, items, queues, history, clock, calls>>

(* Mutant of UpdateState_Fail: the failed transaction is begun again. *)
UpdateState_FailRetrying(p) ==
    LET r == procs[p] IN
    /\ r.pc \in {"validated", "begun", "updated", "recorded"}
    /\ procs' = [procs EXCEPT ![p].pc = "validated"]
    /\ UNCHANGED <<type_definitions, items, queues, tickets, history, clock, calls>>

(* A storage failure, or the caller cancelling the request's context, at the  *)
(* BEGIN, the UPDATE, the INSERT or the COMMIT: the transaction is rolled     *)
(* back.                                                                      *)
UpdateState_Fail(p) ==
    LET r == procs[p]
        failed == CASE r.pc = "validated" -> "begin"
                    [] r.pc = "begun"     -> "update"
                    [] r.pc = "updated"   -> "insert"
                    [] OTHER              -> "commit"
    IN
    /\ r.pc \in {"validated", "begun", "updated", "recorded"}
    /\ Done(p, r.op, r.tenantID, r.req, r.ticket, Err(NewInternalError(failed)))
    /\ UNCHANGED <<type_definitions, items, queues, tickets, history, clock, calls>>

(* POST /tickets/{id}/forward.  The ticket is read as every ticket is         *)
(* (GetByID); the target queue must be active and accept the ticket's type;  *)
(* the move is the one UPDATE of the ticket's queue_id, which waits for the  *)
(* row's lock.  moved = FALSE is a storage failure of that UPDATE.           *)
ForwardTicket(p, tenantID, ticketID, targetQueueID, moved) ==
    LET req == [TicketID |-> ticketID, TargetQueueID |-> targetQueueID]
        reject(ticket, e) == /\ Done(p, "ForwardTicket", tenantID, req, ticket, Err(e))
                             /\ UNCHANGED tickets
    IN
    /\ procs[p].pc = "idle"
    /\ calls < MaxCalls
    /\ calls' = calls + 1
    /\ IF ~GetTicketFound(tickets, ticketID, tenantID)
       THEN reject(NoTicket, NewNotFoundError("ticket", ticketID))
       ELSE LET ticket == tickets[ticketID]
                queue == queues[targetQueueID]
            IN
       IF ~queue.is_active
       THEN reject(ticket, NewConflictError("QueueInactive", [queue_id |-> targetQueueID]))
       ELSE IF ~AllowsTicketType(queue, ticket.type_definition_id)
       THEN reject(ticket, NewConflictError("TypeNotAllowed", [queue_id |-> targetQueueID]))
       ELSE /\ \A q \in Procs \ {p} : ~HoldsRowLock(q, ticketID)
            /\ IF ~moved
               THEN reject(ticket, NewInternalError("update"))
               ELSE LET updated == UpdateTicketQueue(tickets, targetQueueID, ticketID, tenantID) IN
                    /\ tickets' = updated
                    /\ Done(p, "ForwardTicket", tenantID, req, ticket,
                            Ok(updated[ticketID], NULL))
    /\ UNCHANGED <<type_definitions, items, queues, history, clock>>

(* The handler writes the response; the goroutine is free for a new request. *)
Respond(p) ==
    /\ procs[p].pc = "done"
    /\ procs' = [procs EXCEPT ![p] = IdleProc]
    /\ UNCHANGED <<type_definitions, items, queues, tickets, history, clock, calls>>

CreateTicketRequests ==
    [ QueueID : QueueIDs \cup {499}, TypeDefinitionID : TypeDefinitionIDs \cup {399},
      CustomData : Payloads ]

Next ==
    \/ \E q \in QueueIDs : DisableQueue(q)
    \/ \E q \in QueueIDs : EnableQueue(q)
    \/ \E p \in Procs, tenantID \in Tenants, req \in CreateTicketRequests,
          inserted \in BOOLEAN :
            CreateTicket(p, tenantID, req, inserted)
    \/ \E p \in Procs, tenantID \in Tenants, ticketID \in 1..MaxTickets,
          transition \in TransitionNames, employeeID \in EmployeeIDs :
            TransitionTicket(p, tenantID, ticketID, transition, employeeID)
    \/ \E p \in Procs, tenantID \in Tenants, ticketID \in 1..MaxTickets,
          targetQueueID \in QueueIDs, moved \in BOOLEAN :
            ForwardTicket(p, tenantID, ticketID, targetQueueID, moved)
    \/ \E p \in Procs : UpdateState_Begin(p)
    \/ \E p \in Procs : UpdateState_Update(p)
    \/ \E p \in Procs : UpdateState_Record(p)
    \/ \E p \in Procs : UpdateState_Commit(p)
    \/ \E p \in Procs : UpdateState_Fail(p)
    \/ \E p \in Procs : Respond(p)

Spec == Init /\ [][Next]_vars

-----------------------------------------------------------------------------
(* The type-definition registry.                                            *)

MaxTypeDefinitions == 2

(* fsm_schema jsonb is nullable: a type definition without a state machine. *)
NoFSM == [init |-> NULL, states |-> {}, transitions |-> {}]

(* The food_item state machine of POST /type-definitions (id 301). *)
FoodItemFSM ==
    [ init |-> "pending",
      states |-> {"pending", "in_progress", "completed", "needs_rework"},
      transitions |->
        { [name |-> "start_item",   from |-> "pending",      to |-> "in_progress"],
          [name |-> "finish_item",  from |-> "in_progress",  to |-> "completed"],
          [name |-> "report_issue", from |-> "completed",    to |-> "needs_rework"],
          [name |-> "restart_item", from |-> "needs_rework", to |-> "in_progress"] } ]

(* The DMV license state machine, abridged to two of the four states that   *)
(* declare the transition named cancel.                                     *)
DMVLicenseFSM ==
    [ init |-> "submitted",
      states |-> {"submitted", "documents_verified", "cancelled"},
      transitions |->
        { [name |-> "verify_docs", from |-> "submitted", to |-> "documents_verified"],
          [name |-> "cancel", from |-> "submitted",          to |-> "cancelled"],
          [name |-> "cancel", from |-> "documents_verified", to |-> "cancelled"] } ]

(* Documents a client can send as fsm_schema that are not state machines    *)
(* of the registry: an undeclared initial state, a transition into an       *)
(* undeclared state, a transition out of one, and one name leading from     *)
(* one state to two states.                                                 *)
InitUndeclaredFSM ==
    [ init |-> "draft", states |-> {"received", "cancelled"},
      transitions |-> {[name |-> "cancel_new", from |-> "received", to |-> "cancelled"]} ]

ToUndeclaredFSM ==
    [ init |-> "received", states |-> {"received", "cancelled"},
      transitions |-> {[name |-> "pickup", from |-> "received", to |-> "picked_up"]} ]

FromUndeclaredFSM ==
    [ init |-> "received", states |-> {"received", "cancelled"},
      transitions |-> {[name |-> "cancel_progress", from |-> "in_progress", to |-> "cancelled"]} ]

AmbiguousFSM ==
    [ init |-> "received", states |-> {"received", "ready", "cancelled"},
      transitions |->
        { [name |-> "close", from |-> "received", to |-> "ready"],
          [name |-> "close", from |-> "received", to |-> "cancelled"] } ]

FSMSchemas ==
    { NoFSM, FoodItemFSM, DMVLicenseFSM, InitUndeclaredFSM, ToUndeclaredFSM,
      FromUndeclaredFSM, AmbiguousFSM }

(* A state machine whose initial state and whose every transition's ends    *)
(* are in its declared state set.                                           *)
WellFormedFSM(fsm) ==
    /\ fsm # NoFSM
    /\ fsm.init \in fsm.states
    /\ \A tr \in fsm.transitions : tr.from \in fsm.states /\ tr.to \in fsm.states

(* Two declared transitions with one name. *)
DuplicateNames(fsm) ==
    {pair \in fsm.transitions \X fsm.transitions :
        pair[1] # pair[2] /\ pair[1].name = pair[2].name}

(* Two declared transitions with one name and one from-state. *)
AmbiguousTransitions(fsm) ==
    {pair \in DuplicateNames(fsm) : pair[1].from = pair[2].from}

(* Mutant of validateFSMSchema: the transitions' ends are not looked at. *)
validateFSMSchemaInitOnly(fsm) ==
    IF fsm # NoFSM /\ fsm.init \in fsm.states
    THEN Nil
    ELSE NewValidationError("invalid fsm_schema", [reason |-> "malformed"])

(* Mutant of validateFSMSchema: every well-formed document passes. *)
validateFSMSchemaWellFormedOnly(fsm) ==
    IF WellFormedFSM(fsm)
    THEN Nil
    ELSE NewValidationError("invalid fsm_schema", [reason |-> "malformed"])

(* State machine schema validation on TypeDefinition writes. *)
validateFSMSchema(fsm) ==
    IF ~WellFormedFSM(fsm)
    THEN NewValidationError("invalid fsm_schema", [reason |-> "malformed"])
    ELSE IF AmbiguousTransitions(fsm) # {}
    THEN NewValidationError("invalid fsm_schema", [reason |-> "ambiguous"])
    ELSE Nil

(* TypeDefinition.id serial. *)
NextTypeDefinitionID == 300 + Cardinality(DOMAIN type_definitions)

TypeDefinition(id, tenant_id, type_code, fsm_schema) ==
    [ id |-> id, tenant_id |-> tenant_id, type_code |-> type_code,
      custom_fields_schema |-> [required |-> {}],
      fsm_schema |-> fsm_schema, is_active |-> TRUE ]

InsertTypeDefinition(td, row) ==
    [id \in DOMAIN td \cup {row.id} |-> IF id = row.id THEN row ELSE td[id]]

(* POST /type-definitions. *)
CreateTypeDefinition(p, tenantID, fsm) ==
    /\ procs[p].pc = "idle"
    /\ calls < MaxCalls
    /\ \/ validateFSMSchema(fsm) # Nil
       \/ Cardinality(DOMAIN type_definitions) < MaxTypeDefinitions
    /\ calls' = calls + 1
    /\ LET err == validateFSMSchema(fsm)
           row == TypeDefinition(NextTypeDefinitionID, tenantID, "custom", fsm)
       IN  IF err # Nil
           THEN /\ Done(p, "CreateTypeDefinition", tenantID, [FSM |-> fsm], NoTicket,
                        Err(err))
                /\ UNCHANGED type_definitions
           ELSE /\ type_definitions' = InsertTypeDefinition(type_definitions, row)
                /\ Done(p, "CreateTypeDefinition", tenantID, [FSM |-> fsm], NoTicket,
                        Ok(NoTicket, NULL))
    /\ UNCHANGED <<items, queues, tickets, history, clock>>

(* INSERT INTO TypeDefinition (tenant_id, type_code, type_name, description, *)
(* custom_fields_schema) of the example data: no fsm_schema is given.        *)
ExampleDataTypeDefinition(tenantID) ==
    /\ Cardinality(DOMAIN type_definitions) < MaxTypeDefinitions
    /\ type_definitions' =
         InsertTypeDefinition(type_definitions,
             TypeDefinition(NextTypeDefinitionID, tenantID, "generic", NoFSM))
    /\ UNCHANGED <<items, queues, tickets, history, procs, clock, calls>>

NextRegistry ==
    \/ \E p \in Procs, tenantID \in Tenants, fsm \in FSMSchemas :
          CreateTypeDefinition(p, tenantID, fsm)
    \/ \E tenantID \in Tenants : ExampleDataTypeDefinition(tenantID)
    \/ \E p \in Procs : Respond(p)

SpecRegistry == Init /\ [][NextRegistry]_vars

-----------------------------------------------------------------------------
(* DELETE /tickets/{id}: cancel.                                             *)

(* Mutant of CancellationTransitions: the from-state is not looked at. *)
CancellationTransitionsAnywhere(fsm, currentState) ==
    {tr \in fsm.transitions : tr.to = "cancelled"}

(* Mutant of CancellationTransitions: every transition leaving the state. *)
TransitionsFrom(fsm, currentState) ==
    {tr \in fsm.transitions : tr.from = currentState}

(* The cancellation transitions a state machine exposes from a state: the   *)
(* ones that lead to cancelled (cancel_new of food_order, cancel of the DMV *)
(* license).                                                                *)
CancellationTransitions(fsm, currentState) ==
    {tr \in fsm.transitions : tr.from = currentState /\ tr.to = "cancelled"}

NoCancellationAvailableError(currentState) ==
    NewConflictError("NoCancellationAvailable", [current_state |-> currentState])

(* The request is the TransitionTicket request of the cancellation          *)
(* transition exposed from the state read, by no employee; it is carried    *)
(* out by TicketRepository.UpdateState.                                     *)
CancelTicket(p, tenantID, ticketID) ==
    LET noReq == [TicketID |-> ticketID, Transition |-> NULL, EmployeeID |-> 0]
        reject(ticket, e) == Done(p, "CancelTicket", tenantID, noReq, ticket, Err(e))
    IN
    /\ procs[p].pc = "idle"
    /\ calls < MaxCalls
    /\ calls' = calls + 1
    /\ IF ~GetTicketFound(tickets, ticketID, tenantID)
       THEN reject(NoTicket, NewNotFoundError("ticket", ticketID))
       ELSE LET ticket == tickets[ticketID] IN
       IF ticket.type_definition_id \notin DOMAIN type_definitions
       THEN reject(ticket, NewNotFoundError("type definition", ticket.type_definition_id))
       ELSE LET typeDef == type_definitions[ticket.type_definition_id]
                exposed == CancellationTransitions(typeDef.fsm_schema, ticket.current_state)
            IN
            IF exposed = {}
            THEN reject(ticket, NoCancellationAvailableError(ticket.current_state))
            ELSE LET tr == CHOOSE x \in exposed : TRUE IN
                 procs' = [procs EXCEPT ![p] =
                    [ pc |-> "validated", op |-> "CancelTicket", tenantID |-> tenantID,
                      req |-> [TicketID |-> ticketID, Transition |-> tr.name,
                               EmployeeID |-> 0],
                      ticket |-> ticket, nextState |-> tr.to,
                      txTime |-> 0, result |-> NoResult ]]
    /\ UNCHANGED <<type_definitions, items, queues, tickets, history, clock>>

NextCancel ==
    \/ \E p \in Procs, tenantID \in Tenants, req \in CreateTicketRequests,
          inserted \in BOOLEAN :
            CreateTicket(p, tenantID, req, inserted)
    \/ \E p \in Procs, tenantID \in Tenants, ticketID \in 1..MaxTickets,
          transition \in TransitionNames, employeeID \in EmployeeIDs :
            TransitionTicket(p, tenantID, ticketID, transition, employeeID)
    \/ \E p \in Procs, tenantID \in Tenants, ticketID \in 1..MaxTickets :
            CancelTicket(p, tenantID, ticketID)
    \/ \E p \in Procs : UpdateState_Begin(p)
    \/ \E p \in Procs : UpdateState_Update(p)
    \/ \E p \in Procs : UpdateState_Record(p)
    \/ \E p \in Procs : UpdateState_Commit(p)
    \/ \E p \in Procs : UpdateState_Fail(p)
    \/ \E p \in Procs : Respond(p)

SpecCancel == Init /\ [][NextCancel]_vars

-----------------------------------------------------------------------------
(* POST /tickets/{id}/reorder.                                               *)

(* The place of a ticket in a listing, 0 when it is not listed. *)
PositionOf(listing, id) ==
    IF \E k \in 1..Len(listing) : listing[k].id = id
    THEN CHOOSE k \in 1..Len(listing) : listing[k].id = id
    ELSE 0

(* The response {id, queue_position, previous_position, updated_at}. *)
Reordered(ticket, position, previousPosition) ==
    [ ok |-> TRUE, ticket |-> ticket, previous_state |-> NULL,
      queue_position |-> position, previous_position |-> previousPosition ]

(* The Ticket table has no column for a position and the listing is ordered *)
(* by created_at: the request names a position, the row is touched          *)
(* (updated_at) and the answer carries the requested position.              *)
ReorderTicket(p, tenantID, ticketID, position) ==
    LET req == [TicketID |-> ticketID, Position |-> position]
        reject(ticket, e) == Done(p, "ReorderTicket", tenantID, req, ticket, Err(e))
    IN
    /\ procs[p].pc = "idle"
    /\ calls < MaxCalls
    /\ calls' = calls + 1
    /\ IF ~GetTicketFound(tickets, ticketID, tenantID)
       THEN reject(NoTicket, NewNotFoundError("ticket", ticketID))
       ELSE LET ticket == tickets[ticketID]
                listing == ListTicketsByQueue(tickets, ticket.queue_id, tenantID,
                                              FoodOrderFSM.states)
            IN
            IF position \notin 1..Len(listing)
            THEN reject(ticket, NewValidationError("invalid position",
                                                   [position |-> position]))
            ELSE Done(p, "ReorderTicket", tenantID, req, ticket,
                      Reordered(ticket, position, PositionOf(listing, ticketID)))
    /\ UNCHANGED <<type_definitions, items, queues, tickets, history, clock>>

NextQueue ==
    \/ \E p \in Procs, tenantID \in Tenants, req \in CreateTicketRequests,
          inserted \in BOOLEAN :
            CreateTicket(p, tenantID, req, inserted)
    \/ \E p \in Procs, tenantID \in Tenants, ticketID \in 1..MaxTickets,
          targetQueueID \in QueueIDs, moved \in BOOLEAN :
            ForwardTicket(p, tenantID, ticketID, targetQueueID, moved)
    \/ \E p \in Procs, tenantID \in Tenants, ticketID \in 1..MaxTickets,
          position \in 1..MaxTickets :
            ReorderTicket(p, tenantID, ticketID, position)
    \/ \E p \in Procs : Respond(p)

SpecQueue == Init /\ [][NextQueue]_vars

-----------------------------------------------------------------------------
(* POST /tickets/{id}/assign.                                                *)

(* The Employee table: barista 500 of tenant 200, clerk 501 of tenant 201. *)
Employee ==
    [id \in {500, 501} |-> [id |-> id, tenant_id |-> IF id = 500 THEN 200 ELSE 201]]

(* Mutant of EmployeeOfTenant: the employee's tenant is not compared. *)
EmployeeOfAnyTenant(employeeID, tenantID) == employeeID \in DOMAIN Employee

(* The employee is one of the tenant's. *)
EmployeeOfTenant(employeeID, tenantID) ==
    employeeID \in DOMAIN Employee /\ Employee[employeeID].tenant_id = tenantID

(* UPDATE tickets SET employee_id = $1, updated_at = NOW() WHERE id = $2    *)
(* AND tenant_id = $3.                                                      *)
UpdateTicketEmployee(tk, employeeID, id, tenantID) ==
    [i \in 1..Len(tk) |->
        IF tk[i].id = id /\ tk[i].tenant_id = tenantID
        THEN [tk[i] EXCEPT !.employee_id = employeeID]
        ELSE tk[i]]

AssignEmployee(p, tenantID, ticketID, employeeID) ==
    LET req == [TicketID |-> ticketID, EmployeeID |-> employeeID]
        reject(ticket, e) ==
            /\ Done(p, "AssignEmployee", tenantID, req, ticket, Err(e))
            /\ UNCHANGED tickets
    IN
    /\ procs[p].pc = "idle"
    /\ calls < MaxCalls
    /\ calls' = calls + 1
    /\ IF ~GetTicketFound(tickets, ticketID, tenantID)
       THEN reject(NoTicket, NewNotFoundError("ticket", ticketID))
       ELSE LET ticket == tickets[ticketID]
                updated == UpdateTicketEmployee(tickets, employeeID, ticketID, tenantID)
            IN
            IF employeeID \notin DOMAIN Employee
            THEN reject(ticket, NewNotFoundError("employee", employeeID))
            ELSE IF ~EmployeeOfTenant(employeeID, ticket.tenant_id)
            THEN reject(ticket, NewForbiddenError("employee of another tenant"))
            ELSE /\ \A q \in Procs \ {p} : ~HoldsRowLock(q, ticketID)
                 /\ tickets' = updated
                 /\ Done(p, "AssignEmployee", tenantID, req, ticket,
                         Ok(updated[ticketID], NULL))
    /\ UNCHANGED <<type_definitions, items, queues, history, clock>>

NextAssign ==
    \/ \E p \in Procs, tenantID \in Tenants, req \in CreateTicketRequests,
          inserted \in BOOLEAN :
            CreateTicket(p, tenantID, req, inserted)
    \/ \E p \in Procs, tenantID \in Tenants, ticketID \in 1..MaxTickets,
          transition \in TransitionNames, employeeID \in EmployeeIDs :
            TransitionTicket(p, tenantID, ticketID, transition, employeeID)
    \/ \E p \in Procs, tenantID \in Tenants, ticketID \in 1..MaxTickets,
          employeeID \in DOMAIN Employee \cup {599} :
            AssignEmployee(p, tenantID, ticketID, employeeID)
    \/ \E p \in Procs : UpdateState_Begin(p)
    \/ \E p \in Procs : UpdateState_Update(p)
    \/ \E p \in Procs : UpdateState_Record(p)
    \/ \E p \in Procs : UpdateState_Commit(p)
    \/ \E p \in Procs : UpdateState_Fail(p)
    \/ \E p \in Procs : Respond(p)

SpecAssign == Init /\ [][NextAssign]_vars

-----------------------------------------------------------------------------
(* Ticket items.                                                             *)

MaxItems == 2

(* The tenant's setup with item types: food_order 300 nests food_item 301   *)
(* and the type 303, which has no fsm_schema.                               *)
InitItems ==
    /\ type_definitions =
         [id \in {300, 301, 303} |->
            [ id |-> id, tenant_id |-> 200,
              type_code |-> CASE id = 300 -> "food_order"
                              [] id = 301 -> "food_item"
                              [] OTHER    -> "generic",
              custom_fields_schema |-> IF id = 300 THEN FoodOrderSchema
                                       ELSE [required |-> {}],
              fsm_schema |-> CASE id = 300 -> FoodOrderFSM
                               [] id = 301 -> FoodItemFSM
                               [] OTHER    -> NoFSM,
              item_definition_ids |-> IF id = 300 THEN {301, 303} ELSE {},
              is_active |-> TRUE ]]
    /\ queues =
         [id \in QueueIDs |->
            [ id |-> id,
              tenant_id |-> IF id = 401 THEN 201 ELSE 200,
              allowed_type_definition_ids |-> IF id = 401 THEN {302} ELSE {300},
              is_active |-> TRUE ]]
    /\ tickets = <<>>
    /\ history = <<>>
    /\ items = <<>>
    /\ procs = [p \in Procs |-> IdleProc]
    /\ clock = 1
    /\ calls = 0

(* A TicketItem row. *)
TicketItem(id, ticket_id, item_type_definition_id, current_state) ==
    [ id |-> id, ticket_id |-> ticket_id,
      item_type_definition_id |-> item_type_definition_id,
      current_state |-> current_state ]

(* Mutant of InitialItemState: every item starts in pending. *)
InitialItemStatePending(typeDef) == "pending"

(* TicketItem.current_state at creation: NULL if the item type has no state *)
(* machine, else the state machine's initial state.                         *)
InitialItemState(typeDef) ==
    IF typeDef.fsm_schema = NoFSM THEN NULL ELSE typeDef.fsm_schema.init

(* The answer of an item operation. *)
ItemOk(item, previous_state) ==
    [ok |-> TRUE, ticket |-> NoTicket, item |-> item, previous_state |-> previous_state]

(* POST /tickets/{ticketId}/items. *)
AddItem(p, tenantID, ticketID, itemTypeID) ==
    LET req == [TicketID |-> ticketID, ItemTypeDefinitionID |-> itemTypeID]
        reject(ticket, e) ==
            /\ Done(p, "AddItem", tenantID, req, ticket, Err(e))
            /\ UNCHANGED items
    IN
    /\ procs[p].pc = "idle"
    /\ calls < MaxCalls
    /\ Len(items) < MaxItems
    /\ calls' = calls + 1
    /\ IF ~GetTicketFound(tickets, ticketID, tenantID)
       THEN reject(NoTicket, NewNotFoundError("ticket", ticketID))
       ELSE LET ticket == tickets[ticketID] IN
       IF itemTypeID \notin DOMAIN type_definitions
       THEN reject(ticket, NewNotFoundError("type definition", itemTypeID))
       ELSE IF itemTypeID \notin
                 type_definitions[ticket.type_definition_id].item_definition_ids
       THEN reject(ticket, NewConflictError("TypeNotAllowed",
                               [item_type_definition_id |-> itemTypeID]))
       ELSE LET item == TicketItem(Len(items) + 1, ticketID, itemTypeID,
                                   InitialItemState(type_definitions[itemTypeID]))
            IN  /\ items' = Append(items, item)
                /\ Done(p, "AddItem", tenantID, req, ticket, ItemOk(item, NULL))
    /\ UNCHANGED <<type_definitions, queues, tickets, history, clock>>

(* POST /items/{id}/transition. *)
TransitionItem(p, tenantID, itemID, transition) ==
    LET req == [ItemID |-> itemID, Transition |-> transition]
        reject(e) ==
            /\ Done(p, "TransitionItem", tenantID, req, NoTicket, Err(e))
            /\ UNCHANGED items
    IN
    /\ procs[p].pc = "idle"
    /\ calls < MaxCalls
    /\ calls' = calls + 1
    /\ IF \/ itemID \notin 1..Len(items)
          \/ ~GetTicketFound(tickets, items[itemID].ticket_id, tenantID)
       THEN reject(NewNotFoundError("item", itemID))
       ELSE LET item == items[itemID]
                typeDef == type_definitions[item.item_type_definition_id]
                v == validateTransition(typeDef.fsm_schema, item.current_state, transition)
            IN
            IF typeDef.fsm_schema = NoFSM \/ ~v.valid
            THEN reject(InvalidTransitionError(item.current_state, transition,
                                               v.validTransitions))
            ELSE /\ items' = [items EXCEPT ![itemID].current_state = v.nextState]
                 /\ Done(p, "TransitionItem", tenantID, req, NoTicket,
                         ItemOk(items'[itemID], item.current_state))
    /\ UNCHANGED <<type_definitions, queues, tickets, history, clock>>

(* INSERT INTO TicketItem (extid, ticket_id, item_type_definition_id, ...)  *)
(* of the example data: the items of a coffee order carry the order's own   *)
(* type definition (3, food_order) and no current_state.                    *)
ExampleDataTicketItem(ticketID) ==
    /\ ticketID \in 1..Len(tickets)
    /\ Len(items) < MaxItems
    /\ calls < MaxCalls
    /\ calls' = calls + 1
    /\ items' = Append(items,
                    TicketItem(Len(items) + 1, ticketID,
                               tickets[ticketID].type_definition_id, NULL))
    /\ UNCHANGED <<type_definitions, queues, tickets, history, procs, clock>>

ItemTransitionNames == {"start_item", "finish_item", "start_preparation"}

NextItems ==
    \/ \E p \in Procs, tenantID \in Tenants, req \in CreateTicketRequests,
          inserted \in BOOLEAN :
            CreateTicket(p, tenantID, req, inserted)
    \/ \E p \in Procs, tenantID \in Tenants, ticketID \in 1..MaxTickets,
          itemTypeID \in {300, 301, 303, 399} :
            AddItem(p, tenantID, ticketID, itemTypeID)
    \/ \E p \in Procs, tenantID \in Tenants, itemID \in 1..MaxItems,
          transition \in ItemTransitionNames :
            TransitionItem(p, tenantID, itemID, transition)
    \/ \E ticketID \in 1..MaxTickets : ExampleDataTicketItem(ticketID)
    \/ \E p \in Procs : Respond(p)

SpecItems == InitItems /\ [][NextItems]_vars

-----------------------------------------------------------------------------
(* A disabled queue and the tickets in it.                                   *)

NextDisabled ==
    \/ \E q \in QueueIDs : DisableQueue(q)
    \/ \E q \in QueueIDs : EnableQueue(q)
    \/ \E p \in Procs, tenantID \in Tenants, req \in CreateTicketRequests,
          inserted \in BOOLEAN :
            CreateTicket(p, tenantID, req, inserted)
    \/ \E p \in Procs, tenantID \in Tenants, ticketID \in 1..MaxTickets,
          transition \in TransitionNames, employeeID \in EmployeeIDs :
            TransitionTicket(p, tenantID, ticketID, transition, employeeID)
    \/ \E p \in Procs, tenantID \in Tenants, ticketID \in 1..MaxTickets :
            CancelTicket(p, tenantID, ticketID)
    \/ \E p \in Procs, tenantID \in Tenants, ticketID \in 1..MaxTickets,
          employeeID \in DOMAIN Employee :
            AssignEmployee(p, tenantID, ticketID, employeeID)
    \/ \E p \in Procs, tenantID \in Tenants, ticketID \in 1..MaxTickets,
          position \in 1..MaxTickets :
            ReorderTicket(p, tenantID, ticketID, position)
    \/ \E p \in Procs : UpdateState_Begin(p)
    \/ \E p \in Procs : UpdateState_Update(p)
    \/ \E p \in Procs : UpdateState_Record(p)
    \/ \E p \in Procs : UpdateState_Commit(p)
    \/ \E p \in Procs : UpdateState_Fail(p)
    \/ \E p \in Procs : Respond(p)

SpecDisabled == Init /\ [][NextDisabled]_vars

-----------------------------------------------------------------------------
(* Termination of a request.                                                 *)

(* The steps of the handler goroutine p between its validation and its      *)
(* return: each is a database call, which returns (with its result, or with *)
(* an error when the storage fails or the request's context ends).          *)
HandlerStep(p) ==
    \/ UpdateState_Begin(p)
    \/ UpdateState_Update(p)
    \/ UpdateState_Record(p)
    \/ UpdateState_Commit(p)
    \/ UpdateState_Fail(p)

(* The requests of tenant 200: creations that are in order, that omit the   *)
(* required field or that name a queue of another type, and transitions     *)
(* by nobody.                                                               *)
NextTermination ==
    \/ \E p \in Procs, inserted \in BOOLEAN,
          req \in [QueueID : {400, 401}, TypeDefinitionID : {300}, CustomData : Payloads] :
            CreateTicket(p, 200, req, inserted)
    \/ \E p \in Procs, ticketID \in 1..MaxTickets, transition \in TransitionNames :
            TransitionTicket(p, 200, ticketID, transition, 0)
    \/ \E p \in Procs : UpdateState_Begin(p)
    \/ \E p \in Procs : UpdateState_Update(p)
    \/ \E p \in Procs : UpdateState_Record(p)
    \/ \E p \in Procs : UpdateState_Commit(p)
    \/ \E p \in Procs : UpdateState_Fail(p)
    \/ \E p \in Procs : Respond(p)

(* The Go scheduler runs every goroutine that can run. *)
SpecFair ==
    Init /\ [][NextTermination]_vars /\ \A p \in Procs : WF_vars(HandlerStep(p))

-----------------------------------------------------------------------------
(* PUT /tickets/{id}: update ticket data; and the operations on a ticket     *)
(* taken together.                                                           *)

(* Mutant of UpdateTicketData: the row is written back as a new ticket's. *)
UpdateTicketDataResettingState(tk, customData, id, tenantID) ==
    [i \in 1..Len(tk) |->
        IF tk[i].id = id /\ tk[i].tenant_id = tenantID
        THEN [tk[i] EXCEPT !.custom_data = customData, !.current_state = "received"]
        ELSE tk[i]]

(* UPDATE tickets SET custom_data = $1, updated_at = NOW() WHERE id = $2    *)
(* AND tenant_id = $3.                                                      *)
UpdateTicketData(tk, customData, id, tenantID) ==
    [i \in 1..Len(tk) |->
        IF tk[i].id = id /\ tk[i].tenant_id = tenantID
        THEN [tk[i] EXCEPT !.custom_data = customData]
        ELSE tk[i]]

UpdateTicket(p, tenantID, ticketID, customData) ==
    LET req == [TicketID |-> ticketID, CustomData |-> customData]
        reject(ticket, e) ==
            /\ Done(p, "UpdateTicket", tenantID, req, ticket, Err(e))
            /\ UNCHANGED tickets
    IN
    /\ procs[p].pc = "idle"
    /\ calls < MaxCalls
    /\ calls' = calls + 1
    /\ IF ~GetTicketFound(tickets, ticketID, tenantID)
       THEN reject(NoTicket, NewNotFoundError("ticket", ticketID))
       ELSE LET ticket == tickets[ticketID] IN
       IF ticket.type_definition_id \notin DOMAIN type_definitions
       THEN reject(ticket, NewNotFoundError("type definition", ticket.type_definition_id))
       ELSE LET err == validateCustomData(customData,
                          type_definitions[ticket.type_definition_id].custom_fields_schema)
                updated == UpdateTicketData(tickets, customData, ticketID, tenantID)
            IN
            IF err.type # Nil.type
            THEN reject(ticket, err)
            ELSE /\ \A q \in Procs \ {p} : ~HoldsRowLock(q, ticketID)
                 /\ tickets' = updated
                 /\ Done(p, "UpdateTicket", tenantID, req, ticket,
                         Ok(updated[ticketID], NULL))
    /\ UNCHANGED <<type_definitions, items, queues, history, clock>>

(* The ticket operations of tenant 200 on its queues 400 and 402. *)
NextOperations ==
    \/ \E p \in Procs, inserted \in BOOLEAN,
          req \in [QueueID : {400, 402}, TypeDefinitionID : {300},
                   CustomData : {{"order_type"}}] :
            CreateTicket(p, 200, req, inserted)
    \/ \E p \in Procs, ticketID \in 1..MaxTickets, transition \in TransitionNames,
          employeeID \in EmployeeIDs :
            TransitionTicket(p, 200, ticketID, transition, employeeID)
    \/ \E p \in Procs, ticketID \in 1..MaxTickets, customData \in Payloads :
            UpdateTicket(p, 200, ticketID, customData)
    \/ \E p \in Procs, ticketID \in 1..MaxTickets, employeeID \in DOMAIN Employee :
            AssignEmployee(p, 200, ticketID, employeeID)
    \/ \E p \in Procs, ticketID \in 1..MaxTickets, targetQueueID \in {400, 402},
          moved \in BOOLEAN :
            ForwardTicket(p, 200, ticketID, targetQueueID, moved)
    \/ \E p \in Procs, ticketID \in 1..MaxTickets, position \in 1..MaxTickets :
            ReorderTicket(p, 200, ticketID, position)
    \/ \E p \in Procs : UpdateState_Begin(p)
    \/ \E p \in Procs : UpdateState_Update(p)
    \/ \E p \in Procs : UpdateState_Record(p)
    \/ \E p \in Procs : UpdateState_Commit(p)
    \/ \E p \in Procs : UpdateState_Fail(p)
    \/ \E p \in Procs : Respond(p)

SpecOperations == Init /\ [][NextOperations]_vars

-----------------------------------------------------------------------------
(* Tenants of a ticket's references.                                         *)

(* The requests of both tenants, naming any employee of the Employee table. *)
NextTenancy ==
    \/ \E p \in Procs, tenantID \in Tenants, req \in CreateTicketRequests,
          inserted \in BOOLEAN :
            CreateTicket(p, tenantID, req, inserted)
    \/ \E p \in Procs, tenantID \in Tenants, ticketID \in 1..MaxTickets,
          transition \in {"start_preparation", "mark_ready"},
          employeeID \in {0} \cup DOMAIN Employee :
            TransitionTicket(p, tenantID, ticketID, transition, employeeID)
    \/ \E p \in Procs, tenantID \in Tenants, ticketID \in 1..MaxTickets,
          employeeID \in DOMAIN Employee :
            AssignEmployee(p, tenantID, ticketID, employeeID)
    \/ \E p \in Procs, tenantID \in Tenants, ticketID \in 1..MaxTickets,
          targetQueueID \in QueueIDs, moved \in BOOLEAN :
            ForwardTicket(p, tenantID, ticketID, targetQueueID, moved)
    \/ \E p \in Procs : UpdateState_Begin(p)
    \/ \E p \in Procs : UpdateState_Update(p)
    \/ \E p \in Procs : UpdateState_Record(p)
    \/ \E p \in Procs : UpdateState_Commit(p)
    \/ \E p \in Procs : UpdateState_Fail(p)
    \/ \E p \in Procs : Respond(p)

SpecTenancy == Init /\ [][NextTenancy]_vars


-----------------------------------------------------------------------------
(* Retried transitions.                                                      *)

(* How often a transition that failed with a storage error is sent again. *)
MaxRetries == 1

(* The vehicle registration type of tenant 201 (type definition 302). *)
DMVRegistrationFSM ==
    [ init |-> "submitted",
      states |-> {"submitted", "documents_verified", "fee_paid", "plates_issued",
                  "error", "cancelled"},
      transitions |->
        { [name |-> "verify_docs",      from |-> "submitted",          to |-> "documents_verified"],
          [name |-> "validation_error", from |-> "submitted",          to |-> "error"],
          [name |-> "process_payment",  from |-> "documents_verified", to |-> "fee_paid"],
          [name |-> "issue_plates",     from |-> "fee_paid",           to |-> "plates_issued"],
          [name |-> "resubmit",         from |-> "error",              to |-> "submitted"] } ]

DMVRegistrationSchema == [required |-> {"vin", "make", "model", "year"}]

(* The database after both tenants are set up: the food order type of       *)
(* tenant 200 and the vehicle registration type of tenant 201, whose queue  *)
(* 401 accepts it.                                                          *)
InitRetry ==
    /\ type_definitions =
         [id \in {300, 302} |->
            [ id |-> id, tenant_id |-> IF id = 300 THEN 200 ELSE 201,
              type_code |-> IF id = 300 THEN "food_order" ELSE "dmv_registration",
              custom_fields_schema |-> IF id = 300 THEN FoodOrderSchema
                                       ELSE DMVRegistrationSchema,
              fsm_schema |-> IF id = 300 THEN FoodOrderFSM ELSE DMVRegistrationFSM,
              is_active |-> TRUE ]]
    /\ queues =
         [id \in QueueIDs |->
            [ id |-> id,
              tenant_id |-> IF id = 401 THEN 201 ELSE 200,
              allowed_type_definition_ids |-> IF id = 401 THEN {302} ELSE {300},
              is_active |-> TRUE ]]
    /\ tickets = <<>>
    /\ history = <<>>
    /\ items = <<>>
    /\ procs = [p \in Procs |-> IdleProc]
    /\ clock = 1
    /\ calls = 0

(* The COMMIT is applied by the database but its acknowledgement does not   *)
(* reach the repository (the connection breaks): UpdateState returns the    *)
(* error although the UPDATE and the INSERT are stored.                     *)
UpdateState_CommitAckLost(p) ==
    LET r == procs[p] IN
    /\ r.pc = "recorded"
    /\ tickets' = UpdateTicketState(tickets, r.nextState, r.req.EmployeeID,
                                    r.req.TicketID, r.tenantID)
    /\ history' = InsertHistory(history,
                     RecordTransition(r.req.TicketID, r.ticket.current_state,
                                      r.nextState, r.req.EmployeeID),
                     r.txTime)
    /\ Done(p, r.op, r.tenantID, r.req, r.ticket, Err(NewInternalError("commit")))
    /\ UNCHANGED <<type_definitions, items, queues, clock, calls>>

(* The attempts already made again for a request. *)
Attempts(req) == IF "Attempt" \in DOMAIN req THEN req.Attempt ELSE 0

(* The retry at the service boundary: a TransitionTicket that returned a    *)
(* storage error is called again with the same arguments, at most           *)
(* MaxRetries times.  The call is TransitionTicket's: it reads the ticket   *)
(* and validates the transition against the state it reads now.  It is the  *)
(* same request, not a new one.                                             *)
RetryTransition(p) ==
    LET r == procs[p]
        req == [TicketID |-> r.req.TicketID, Transition |-> r.req.Transition,
                EmployeeID |-> r.req.EmployeeID, Attempt |-> Attempts(r.req) + 1]
        reject(ticket, e) == Done(p, "TransitionTicket", r.tenantID, req, ticket, Err(e))
    IN
    /\ r.pc = "done"
    /\ r.op = "TransitionTicket"
    /\ ~r.result.ok
    /\ r.result.err.type = ErrorTypeInternal
    /\ Attempts(r.req) < MaxRetries
    /\ IF ~GetTicketFound(tickets, r.req.TicketID, r.tenantID)
       THEN reject(NoTicket, NewNotFoundError("ticket", r.req.TicketID))
       ELSE LET ticket == tickets[r.req.TicketID] IN
       IF ticket.tenant_id # r.tenantID
       THEN reject(ticket, NewForbiddenError("Access denied"))
       ELSE IF ticket.type_definition_id \notin DOMAIN type_definitions
       THEN reject(ticket, NewNotFoundError("type definition", ticket.type_definition_id))
       ELSE LET typeDef == type_definitions[ticket.type_definition_id]
                v == validateTransition(typeDef.fsm_schema, ticket.current_state,
                                        r.req.Transition)
            IN
            IF ~v.valid
            THEN reject(ticket,
                    InvalidTransitionError(ticket.current_state, r.req.Transition,
                                           v.validTransitions))
            ELSE procs' = [procs EXCEPT ![p] =
                    [ pc |-> "validated", op |-> "TransitionTicket",
                      tenantID |-> r.tenantID, req |-> req, ticket |-> ticket,
                      nextState |-> v.nextState, txTime |-> 0, result |-> NoResult ]]
    /\ UNCHANGED <<type_definitions, items, queues, tickets, history, clock, calls>>

(* The requests of tenant 201 on its registration queue: creations of       *)
(* registration tickets, and the clerk's validation_error and the           *)
(* citizen's resubmit.                                                      *)
NextRetry ==
    \/ \E p \in Procs, inserted \in BOOLEAN :
          CreateTicket(p, 201, [QueueID |-> 401, TypeDefinitionID |-> 302,
                                CustomData |-> DMVRegistrationSchema.required],
                       inserted)
    \/ \E p \in Procs, ticketID \in 1..MaxTickets,
          transition \in {"validation_error", "resubmit"} :
            TransitionTicket(p, 201, ticketID, transition, 0)
    \/ \E p \in Procs : UpdateState_Begin(p)
    \/ \E p \in Procs : UpdateState_Update(p)
    \/ \E p \in Procs : UpdateState_Record(p)
    \/ \E p \in Procs : UpdateState_Commit(p)
    \/ \E p \in Procs : UpdateState_CommitAckLost(p)
    \/ \E p \in Procs : UpdateState_Fail(p)
    \/ \E p \in Procs : RetryTransition(p)
    \/ \E p \in Procs : Respond(p)

SpecRetry == InitRetry /\ [][NextRetry]_vars


-----------------------------------------------------------------------------
(* Updates of a type definition's state machine.                             *)

(* The four-state order machine of the database design document. *)
BasicOrderFSM ==
    [ init |-> "received",
      states |-> {"received", "in_progress", "ready", "completed"},
      transitions |->
        { [name |-> "start",    from |-> "received",    to |-> "in_progress"],
          [name |-> "complete", from |-> "in_progress", to |-> "ready"],
          [name |-> "pickup",   from |-> "ready",       to |-> "completed"] } ]

(* UPDATE TypeDefinition SET fsm_schema = $1 WHERE id = $2: the column is a  *)
(* jsonb with no constraint, and the table's only trigger sets updated_at.  *)
UpdateTypeDefinitionFSM(td, fsm, id) ==
    [td EXCEPT ![id].fsm_schema = fsm]

(* PUT /type-definitions/{id} with a new fsm_schema: the definition is the   *)
(* caller's, the new state machine is validated as at creation, and the row *)
(* is updated.                                                              *)
UpdateTypeDefinition(p, tenantID, id, fsm) ==
    LET req == [TypeDefinitionID |-> id, FSM |-> fsm]
        reject(e) == /\ Done(p, "UpdateTypeDefinition", tenantID, req, NoTicket, Err(e))
                     /\ UNCHANGED type_definitions
    IN
    /\ procs[p].pc = "idle"
    /\ calls < MaxCalls
    /\ calls' = calls + 1
    /\ IF id \notin DOMAIN type_definitions \/ type_definitions[id].tenant_id # tenantID
       THEN reject(NewNotFoundError("type definition", id))
       ELSE IF validateFSMSchema(fsm) # Nil
       THEN reject(validateFSMSchema(fsm))
       ELSE /\ type_definitions' = UpdateTypeDefinitionFSM(type_definitions, fsm, id)
            /\ Done(p, "UpdateTypeDefinition", tenantID, req, NoTicket,
                    Ok(NoTicket, NULL))
    /\ UNCHANGED <<items, queues, tickets, history, clock>>

(* Tenant 200's orders and their transitions, and updates of the order      *)
(* type's state machine by either tenant: to the machine it has, to the     *)
(* four-state machine, or to a document that is not a state machine.        *)
NextSchemaChange ==
    \/ \E p \in Procs, inserted \in BOOLEAN :
          CreateTicket(p, 200, [QueueID |-> 400, TypeDefinitionID |-> 300,
                                CustomData |-> FoodOrderSchema.required],
                       inserted)
    \/ \E p \in Procs, ticketID \in 1..MaxTickets,
          transition \in {"start_preparation", "cancel_new", "start"} :
            TransitionTicket(p, 200, ticketID, transition, 0)
    \/ \E p \in Procs, tenantID \in Tenants,
          fsm \in {FoodOrderFSM, BasicOrderFSM, AmbiguousFSM} :
            UpdateTypeDefinition(p, tenantID, 300, fsm)
    \/ \E p \in Procs : UpdateState_Begin(p)
    \/ \E p \in Procs : UpdateState_Update(p)
    \/ \E p \in Procs : UpdateState_Record(p)
    \/ \E p \in Procs : UpdateState_Commit(p)
    \/ \E p \in Procs : UpdateState_Fail(p)
    \/ \E p \in Procs : Respond(p)

SpecSchemaChange == Init /\ [][NextSchemaChange]_vars

----------------------------------------------------------------------------
(* Vocabulary of the properties. *)

(* The Transition Records of one ticket, oldest first. *)
HistoryOf(h, t) == SelectSeq(h, LAMBDA r : r.ticket_id = t)

FSMOf(ticket) == type_definitions[ticket.type_definition_id].fsm_schema

(* The transitions a state machine declares under a name from a state. *)
Declared(fsm, name, from) ==
    {tr \in fsm.transitions : tr.name = name /\ tr.from = from}

IsInvalidTransition(result) ==
    /\ ~result.ok
    /\ result.err.type = ErrorTypeConflict
    /\ result.err.message = "Invalid state transition"

IsInternalError(result) == ~result.ok /\ result.err.type = ErrorTypeInternal

(* Handler p has returned from a TransitionTicket that found its ticket. *)
TransitionDone(p) ==
    /\ procs[p].pc = "done"
    /\ procs[p].op = "TransitionTicket"
    /\ procs[p].ticket.id # 0

(* Handler p commits its transaction in this step. *)
Commits(p) ==
    /\ procs[p].pc = "recorded"
    /\ procs'[p].pc = "done"
    /\ procs'[p].result.ok

(* Handler p returns from the service call in this step. *)
Returns(p, op) ==
    /\ procs[p].pc # "done"
    /\ procs'[p].pc = "done"
    /\ procs'[p].op = op

----------------------------------------------------------------------------
(* C1: of two concurrent TransitionTicket requests naming the same           *)
(* transition against one ticket read in the same state, exactly one         *)
(* succeeds; the transition is never applied twice.                          *)
C1_NoDoubleApplication ==
    \A p, q \in Procs :
        ( /\ p # q
          /\ TransitionDone(p) /\ TransitionDone(q)
          /\ procs[p].req.TicketID = procs[q].req.TicketID
          /\ procs[p].req.Transition = procs[q].req.Transition
          /\ procs[p].ticket.current_state = procs[q].ticket.current_state
          /\ procs[p].result.ok )
        => IsInvalidTransition(procs[q].result) \/ IsInternalError(procs[q].result)

(* C2: a transition's state update and its Transition Record are committed   *)
(* together or not at all: every step that changes a ticket's state appends  *)
(* that ticket's record, every step that appends a record writes the         *)
(* record's new state (and actor) to its ticket and touches no other ticket, *)
(* and a request that ends in an error (a storage failure or a cancellation  *)
(* at the UPDATE, the INSERT or the COMMIT) leaves both tables as they were. *)
C2_TransitionAndRecordAtomic ==
    [][ /\ \A i \in 1..Len(tickets) :
              tickets'[i].current_state # tickets[i].current_state
              => /\ Len(history') = Len(history) + 1
                 /\ history'[Len(history')].ticket_id = i
                 /\ history'[Len(history')].new_state = tickets'[i].current_state
        /\ history' # history
              => /\ Len(history') = Len(history) + 1
                 /\ SubSeq(history', 1, Len(history)) = history
                 /\ Len(tickets') = Len(tickets)
                 /\ LET rec == history'[Len(history')] IN
                      /\ rec.ticket_id \in 1..Len(tickets)
                      /\ tickets'[rec.ticket_id].current_state = rec.new_state
                      /\ tickets'[rec.ticket_id].employee_id = rec.changed_by_employee_id
                      /\ \A i \in 1..Len(tickets) :
                            i # rec.ticket_id => tickets'[i] = tickets[i]
        /\ \A p \in Procs :
              (Returns(p, "TransitionTicket") /\ ~procs'[p].result.ok)
              => tickets' = tickets /\ history' = history
      ]_vars

(* C2 witness: a transition was committed and a later request failed         *)
(* between the UPDATE and the INSERT of its transaction.                     *)
C2_Witness ==
    /\ Len(history) > 0
    /\ \E p \in Procs :
          /\ TransitionDone(p)
          /\ IsInternalError(procs[p].result)
          /\ procs[p].result.err.details.err = "insert"

C4_HistoryReplays ==
    \A i \in 1..Len(tickets) :
        LET h == HistoryOf(history, i) IN
        /\ Len(h) >= 1
        /\ h[1].previous_state = NULL
        /\ \A k \in 2..Len(h) : h[k].previous_state = h[k-1].new_state
        /\ h[Len(h)].new_state = tickets[i].current_state

(* C5: of two concurrent TransitionTicket requests naming different          *)
(* transitions that leave the state both read, at most one succeeds; the     *)
(* other fails instead of overwriting the newer state.                       *)
C5_NoOverwrite ==
    \A p, q \in Procs :
        ( /\ p # q
          /\ TransitionDone(p) /\ TransitionDone(q)
          /\ procs[p].req.TicketID = procs[q].req.TicketID
          /\ procs[p].req.Transition # procs[q].req.Transition
          /\ procs[p].ticket.current_state = procs[q].ticket.current_state
          /\ procs[p].result.ok )
        => ~procs[q].result.ok

C7_ValidTransitionsExact ==
    [][ \A p \in Procs :
          (Returns(p, "TransitionTicket") /\ IsInvalidTransition(procs'[p].result))
          => LET ticket == tickets[procs'[p].req.TicketID] IN
             /\ procs'[p].result.err.details.valid_transitions =
                   {tr.name : tr \in {x \in FSMOf(ticket).transitions :
                                         x.from = ticket.current_state}}
             /\ procs'[p].result.err.details.current_state = ticket.current_state
             /\ procs'[p].result.err.details.attempted_transition = procs'[p].req.Transition
      ]_vars

(* C7 witness: mark_ready requested on a ticket in received is rejected      *)
(* listing the two transitions that leave received.                          *)
C7_Witness ==
    \E p \in Procs :
        /\ TransitionDone(p)
        /\ procs[p].req.Transition = "mark_ready"
        /\ procs[p].ticket.current_state = "received"
        /\ IsInvalidTransition(procs[p].result)
        /\ procs[p].result.err.details.valid_transitions = {"start_preparation", "cancel_new"}

C9_InitialRecord ==
    [][ Len(tickets') = Len(tickets) + 1
        => LET t == Len(tickets')
               h == HistoryOf(history', t)
           IN /\ tickets'[t].current_state = FSMOf(tickets'[t]).init
              /\ Len(h) = 1
              /\ h[1].previous_state = NULL
              /\ h[1].new_state = FSMOf(tickets'[t]).init
      ]_vars

(* C10: CreateTicket against a disabled queue fails (with QueueInactive) and *)
(* creates no Ticket record.                                                 *)
C10_DisabledQueueRejects ==
    [][ \A p \in Procs :
          ( /\ Returns(p, "CreateTicket")
            /\ procs'[p].req.QueueID \in DOMAIN queues
            /\ ~queues[procs'[p].req.QueueID].is_active )
          => /\ ~procs'[p].result.ok
             /\ tickets' = tickets
      ]_vars

(* The request of a CreateTicket names an existing type definition and       *)
(* carries every field its schema requires.                                  *)
WellFormedCreate(req) ==
    /\ req.TypeDefinitionID \in DOMAIN type_definitions
    /\ type_definitions[req.TypeDefinitionID].custom_fields_schema.required
          \subseteq req.CustomData

(* C11: CreateTicket succeeds only if the target queue's accepted-type list  *)
(* contains the requested type definition; a request that is otherwise in    *)
(* order against a queue that does not accept the type fails with a rule     *)
(* violation, not with an internal error, and creates no Ticket record.      *)
C11_TypeNotAllowed ==
    [][ \A p \in Procs :
          Returns(p, "CreateTicket")
          => LET req == procs'[p].req
                 res == procs'[p].result
             IN /\ res.ok => /\ req.QueueID \in DOMAIN queues
                             /\ AllowsTicketType(queues[req.QueueID], req.TypeDefinitionID)
                /\ ( /\ WellFormedCreate(req)
                     /\ req.QueueID \in DOMAIN queues
                     /\ ~AllowsTicketType(queues[req.QueueID], req.TypeDefinitionID) )
                   => /\ ~res.ok
                      /\ tickets' = tickets
                      /\ mapErrorToResponse(res.err).Error # "internal_error"
      ]_vars

(* C12: CreateTicket with a payload that omits a field its type's schema     *)
(* requires fails with a validation error that names the omitted fields, and *)
(* creates no Ticket record.                                                 *)
C12_RequiredFieldOmitted ==
    [][ \A p \in Procs :
          ( /\ Returns(p, "CreateTicket")
            /\ procs'[p].req.TypeDefinitionID \in DOMAIN type_definitions
            /\ ~WellFormedCreate(procs'[p].req) )
          => LET req == procs'[p].req
                 res == procs'[p].result
                 required == type_definitions[req.TypeDefinitionID]
                                .custom_fields_schema.required
             IN /\ ~res.ok
                /\ tickets' = tickets
                /\ mapErrorToResponse(res.err).Error = ErrorTypeValidation
                /\ AsAppError(res.err).appErr.details.fields = required \ req.CustomData
                /\ AsAppError(res.err).appErr.details.fields # {}
      ]_vars

(* C12 witness: a CreateTicket without order_type, made when a ticket        *)
(* exists, was answered with the validation error naming order_type, and the *)
(* table holds no ticket without it.                                         *)
C12_Witness ==
    /\ Len(tickets) > 0
    /\ \A i \in 1..Len(tickets) : "order_type" \in tickets[i].custom_data
    /\ \E p \in Procs :
          /\ procs[p].pc = "done"
          /\ procs[p].op = "CreateTicket"
          /\ procs[p].req.CustomData = {}
          /\ ~procs[p].result.ok
          /\ mapErrorToResponse(procs[p].result.err).Error = ErrorTypeValidation
          /\ AsAppError(procs[p].result.err).appErr.details.fields = {"order_type"}

(* C13: a TransitionTicket issued under a tenant identity other than the     *)
(* tenant that owns the ticket is rejected with Forbidden, which differs     *)
(* from the NotFound of a ticket that does not exist, and leaves the ticket  *)
(* and its history unchanged.                                                *)
C13_CrossTenantForbidden ==
    [][ \A p \in Procs :
          ( /\ Returns(p, "TransitionTicket")
            /\ procs'[p].req.TicketID \in 1..Len(tickets)
            /\ tickets[procs'[p].req.TicketID].tenant_id # procs'[p].tenantID )
          => /\ ~procs'[p].result.ok
             /\ mapErrorToResponse(procs'[p].result.err).Error = ErrorTypeForbidden
             /\ tickets' = tickets
             /\ history' = history
      ]_vars

(* A type definition is visible to a tenant when the tenant owns it or when  *)
(* it is a system definition, owned by no tenant.                            *)
VisibleTo(typeDef, tenantID) ==
    typeDef.tenant_id = tenantID \/ typeDef.tenant_id \notin Tenants

(* C14: a caller acting for tenant T obtains only type definitions that T    *)
(* owns or that are system definitions: a CreateTicket that names another    *)
(* tenant's type definition fails (with NotFound), so that no ticket is      *)
(* created of a type definition its tenant cannot see.                       *)
C14_TypeDefinitionTenantScoped ==
    [][ \A p \in Procs :
          ( /\ Returns(p, "CreateTicket")
            /\ WellFormedCreate(procs'[p].req)
            /\ ~VisibleTo(type_definitions[procs'[p].req.TypeDefinitionID],
                          procs'[p].tenantID) )
          => /\ ~procs'[p].result.ok
             /\ tickets' = tickets
      ]_vars

(* The tickets of a queue as their owner lists them, in every state. *)
Membership(tk, queueID, tenantID) ==
    ListTicketsByQueue(tk, queueID, tenantID, FoodOrderFSM.states)

Forwards(p) == Returns(p, "ForwardTicket") /\ procs'[p].result.ok

(* The ids of the tickets of a listing. *)
IDs(listing) == {listing[k].id : k \in 1..Len(listing)}

(* C16: after a successful ForwardTicket from queue X to another queue Y the *)
(* ticket is no longer in X's membership listing, it is the last of Y's      *)
(* listing, after every ticket that was in Y, and its current_state is       *)
(* unchanged.                                                                *)
C16_ForwardToTail ==
    [][ \A p \in Procs :
          Forwards(p)
          => LET id == procs'[p].req.TicketID
                 X == tickets[id].queue_id
                 Y == procs'[p].req.TargetQueueID
                 t == tickets[id].tenant_id
             IN X # Y
                => /\ id \notin IDs(Membership(tickets', X, t))
                   /\ Membership(tickets', Y, t)
                         = Append(Membership(tickets, Y, t), tickets'[id])
                   /\ tickets'[id].current_state = tickets[id].current_state
      ]_vars

C18_ForwardPrecondition ==
    [][ \A p \in Procs :
          ( /\ Returns(p, "ForwardTicket")
            /\ GetTicketFound(tickets, procs'[p].req.TicketID, procs'[p].tenantID) )
          => LET id == procs'[p].req.TicketID
                 target == queues[procs'[p].req.TargetQueueID]
                 accepted == /\ target.is_active
                             /\ tickets[id].type_definition_id
                                   \in target.allowed_type_definition_ids
             IN /\ procs'[p].result.ok => accepted
                /\ ~accepted => /\ ~procs'[p].result.ok
                                /\ ~IsInternalError(procs'[p].result)
                                /\ tickets'[id].queue_id = tickets[id].queue_id
      ]_vars

(* C18 witness: a forward to queue 402, which accepts the ticket's type but  *)
(* is disabled, was rejected and the ticket is in queue 400.                 *)
C18_Witness ==
    \E p \in Procs :
        /\ procs[p].pc = "done"
        /\ procs[p].op = "ForwardTicket"
        /\ procs[p].ticket.id # 0
        /\ procs[p].req.TargetQueueID = 402
        /\ ~queues[402].is_active
        /\ AllowsTicketType(queues[402], procs[p].ticket.type_definition_id)
        /\ ~procs[p].result.ok
        /\ procs[p].result.err.message = "QueueInactive"
        /\ tickets[procs[p].req.TicketID].queue_id = 400

(* Sequence s is the beginning of sequence t. *)
IsPrefix(s, t) == Len(s) <= Len(t) /\ SubSeq(t, 1, Len(s)) = s

(* C19: Transition Records are never updated or deleted: in every step the   *)
(* history table, and with it each ticket's history, keeps every record it   *)
(* had, unchanged and in place, and at most gains records at its end.        *)
C19_HistoryAppendOnly ==
    [][ /\ IsPrefix(history, history')
        /\ \A t \in 1..MaxTickets :
              IsPrefix(HistoryOf(history, t), HistoryOf(history', t))
      ]_vars

(* C19 witness: a ticket's history holds the record of start_preparation by  *)
(* employee 500 followed by the record of mark_ready by nobody.              *)
C19_Witness ==
    \E t \in 1..Len(tickets) :
        LET h == HistoryOf(history, t) IN
        /\ Len(h) = 2
        /\ h[1].new_state = "in_progress" /\ h[1].changed_by_employee_id = 500
        /\ h[2].new_state = "ready" /\ h[2].changed_by_employee_id = 0

(* C20: the Transition Records of a ticket are totally ordered by creation   *)
(* time, and that order is the order in which the transitions were accepted: *)
(* of two records of one ticket, the one committed later has the strictly    *)
(* later created_at, so a history query by created_at returns them oldest    *)
(* first in acceptance order with no ties.                                   *)
C20_HistoryOrderedByCreationTime ==
    \A t \in 1..Len(tickets) :
        LET h == HistoryOf(history, t) IN
        \A j, k \in 1..Len(h) : j < k => h[j].created_at < h[k].created_at

-----------------------------------------------------------------------------
(* C21: only well-formed type definitions are in the registry: every type    *)
(* definition has a state machine whose initial state is in its declared     *)
(* state set and whose every transition starts and ends in that set.         *)
C21_OnlyWellFormedAccepted ==
    \A id \in DOMAIN type_definitions :
        WellFormedFSM(type_definitions[id].fsm_schema)

-----------------------------------------------------------------------------
-----------------------------------------------------------------------------
(* C23: in every type definition of the registry a (current state,           *)
(* transition name) pair determines at most one next state, the one          *)
(* validateTransition resolves; a definition that declares one name from     *)
(* one state to two different states is rejected by CreateTypeDefinition     *)
(* and leaves the registry as it was.                                        *)
C23_NextStateDetermined ==
    [][ /\ \A id \in DOMAIN type_definitions' :
             LET fsm == type_definitions'[id].fsm_schema
             IN  \A tr \in fsm.transitions :
                    validateTransition(fsm, tr.from, tr.name).nextState = tr.to
        /\ \A p \in Procs :
             Returns(p, "CreateTypeDefinition") =>
                LET fsm == procs'[p].req.FSM
                IN  (\E t1, t2 \in fsm.transitions :
                        t1.name = t2.name /\ t1.from = t2.from /\ t1.to # t2.to)
                    => /\ ~procs'[p].result.ok
                       /\ procs'[p].result.err.type = ErrorTypeValidation
                       /\ type_definitions' = type_definitions ]_vars

(* C23 witness: a definition with close from received to ready and to        *)
(* cancelled was rejected while the registry holds a created definition.     *)
C23_Witness ==
    /\ \E id \in DOMAIN type_definitions :
          type_definitions[id].fsm_schema = FoodItemFSM
    /\ \E p \in Procs :
          /\ procs[p].pc = "done"
          /\ procs[p].op = "CreateTypeDefinition"
          /\ procs[p].req.FSM = AmbiguousFSM
          /\ procs[p].result = Err(validateFSMSchema(AmbiguousFSM))

-----------------------------------------------------------------------------
(* C24: a CancelTicket on a ticket of the caller's tenant is rejected with   *)
(* NoCancellationAvailable exactly when the ticket's type definition         *)
(* declares no transition to cancelled from the state the ticket is in, and  *)
(* the rejection leaves tickets and Transition Records as they were.         *)
C24_NoCancellationAvailable ==
    [][ \A p \in Procs :
          (procs[p].pc = "idle" /\ procs'[p].op = "CancelTicket") =>
            LET id == procs'[p].req.TicketID
                known == GetTicketFound(tickets, id, procs'[p].tenantID)
                refused == /\ procs'[p].pc = "done"
                           /\ ~procs'[p].result.ok
                           /\ procs'[p].result.err.type = ErrorTypeConflict
                           /\ procs'[p].result.err.message = "NoCancellationAvailable"
            IN  /\ known =>
                     (refused <=>
                        \A tr \in FSMOf(tickets[id]).transitions :
                            ~(tr.from = tickets[id].current_state /\ tr.to = "cancelled"))
                /\ refused => (known /\ tickets' = tickets /\ history' = history) ]_vars

(* C24 witness: a food_order ticket in in_progress, from which only          *)
(* mark_ready leads, was refused cancellation.                               *)
C24_Witness ==
    \E p \in Procs :
        /\ procs[p].pc = "done"
        /\ procs[p].op = "CancelTicket"
        /\ procs[p].result = Err(NoCancellationAvailableError("in_progress"))
        /\ tickets[procs[p].req.TicketID].current_state = "in_progress"

-----------------------------------------------------------------------------
(* C25: a CancelTicket that commits has the effect of the TransitionTicket   *)
(* of the cancellation transition declared from the state read: no ticket    *)
(* is deleted, the ticket's current_state becomes that transition's to-state *)
(* and exactly one Transition Record, from the state read to that state, is  *)
(* appended.                                                                 *)
C25_CancelIsTransition ==
    [][ \A p \in Procs :
          (Commits(p) /\ procs[p].op = "CancelTicket") =>
            LET r == procs[p]
                id == r.req.TicketID
                fsm == FSMOf(r.ticket)
            IN  \E tr \in fsm.transitions :
                  /\ tr.from = r.ticket.current_state
                  /\ tr.to = "cancelled"
                  /\ tr.name = r.req.Transition
                  /\ validateTransition(fsm, tr.from, tr.name).valid
                  /\ validateTransition(fsm, tr.from, tr.name).nextState = tr.to
                  /\ Len(tickets') = Len(tickets)
                  /\ tickets' = UpdateTicketState(tickets, tr.to, 0, id, r.tenantID)
                  /\ tickets'[id].current_state = tr.to
                  /\ Len(history') = Len(history) + 1
                  /\ history' = InsertHistory(history,
                                   RecordTransition(id, tr.from, tr.to, 0), r.txTime)
                  /\ procs'[p].result = Ok(tickets'[id], tr.from) ]_vars

(* C25 witness: a ticket cancelled from received is still stored, in         *)
(* cancelled, with the record of that change.                                *)
C25_Witness ==
    \E p \in Procs :
        /\ procs[p].pc = "done"
        /\ procs[p].op = "CancelTicket"
        /\ procs[p].result.ok
        /\ tickets[procs[p].req.TicketID].current_state = "cancelled"
        /\ \E i \in 1..Len(history) :
              /\ history[i].ticket_id = procs[p].req.TicketID
              /\ history[i].previous_state = "received"
              /\ history[i].new_state = "cancelled"

-----------------------------------------------------------------------------
(* A listing without one ticket. *)
Without(listing, id) == SelectSeq(listing, LAMBDA t : t.id # id)

(* C26: after a successful ReorderTicket the ticket is at the requested      *)
(* position of its queue's listing, the other tickets of the queue keep      *)
(* their relative order and no ticket's current_state has changed.           *)
C26_ReorderToPosition ==
    [][ \A p \in Procs :
          (Returns(p, "ReorderTicket") /\ procs'[p].result.ok) =>
            LET id == procs'[p].req.TicketID
                q == tickets[id].queue_id
                t == tickets[id].tenant_id
                before == Membership(tickets, q, t)
                after == Membership(tickets', q, t)
            IN  /\ PositionOf(after, id) = procs'[p].req.Position
                /\ Without(after, id) = Without(before, id)
                /\ Len(tickets') = Len(tickets)
                /\ \A i \in 1..Len(tickets) :
                      tickets'[i].current_state = tickets[i].current_state ]_vars

-----------------------------------------------------------------------------
-----------------------------------------------------------------------------
(* C28: a successful AssignEmployee changes the ticket's assigned employee   *)
(* and nothing else: every current_state and every Transition Record is as   *)
(* before; an AssignEmployee naming an employee of another tenant than the   *)
(* ticket's fails and changes nothing.                                       *)
C28_AssignOnlyOwnership ==
    [][ \A p \in Procs :
          Returns(p, "AssignEmployee") =>
            LET id == procs'[p].req.TicketID
                e == procs'[p].req.EmployeeID
                ok == procs'[p].result.ok
                known == GetTicketFound(tickets, id, procs'[p].tenantID)
            IN  /\ history' = history
                /\ ok => /\ known
                         /\ tickets' = [tickets EXCEPT ![id].employee_id = e]
                         /\ tickets'[id].current_state = tickets[id].current_state
                         /\ Employee[e].tenant_id = tickets[id].tenant_id
                /\ ~ok => tickets' = tickets
                /\ (known /\ e \in DOMAIN Employee
                          /\ Employee[e].tenant_id # tickets[id].tenant_id)
                   => (~ok /\ tickets' = tickets) ]_vars

(* C28 witness: a ticket of tenant 200 is assigned to barista 500 and the    *)
(* request to assign it to clerk 501 of tenant 201 has failed.               *)
C28_Witness ==
    \E p \in Procs :
        /\ procs[p].pc = "done"
        /\ procs[p].op = "AssignEmployee"
        /\ procs[p].req.EmployeeID = 501
        /\ ~procs[p].result.ok
        /\ procs[p].ticket.tenant_id = 200
        /\ tickets[procs[p].req.TicketID].employee_id = 500

-----------------------------------------------------------------------------
(* The type definition of an item. *)
ItemTypeOf(item) == type_definitions[item.item_type_definition_id]

(* C29: an item whose type declares no state machine has a null              *)
(* current_state in every state, and every TransitionItem on it is rejected  *)
(* and leaves the items as they were.                                        *)
C29_StatelessItem ==
    [][ /\ \A i \in 1..Len(items') :
             ItemTypeOf(items'[i]).fsm_schema = NoFSM => items'[i].current_state = NULL
        /\ \A p \in Procs :
             (/\ Returns(p, "TransitionItem")
              /\ procs'[p].req.ItemID \in 1..Len(items)
              /\ ItemTypeOf(items[procs'[p].req.ItemID]).fsm_schema = NoFSM)
             => (~procs'[p].result.ok /\ items' = items) ]_vars

(* C29 witness: an item of type 303, which has no state machine, was added   *)
(* through the API and a transition requested on it was rejected.            *)
C29_Witness ==
    \E p \in Procs :
        /\ procs[p].pc = "done"
        /\ procs[p].op = "TransitionItem"
        /\ procs[p].tenantID = 200
        /\ ~procs[p].result.ok
        /\ procs[p].req.ItemID \in 1..Len(items)
        /\ items[procs[p].req.ItemID].item_type_definition_id = 303
        /\ items[procs[p].req.ItemID].current_state = NULL
        /\ procs[p].result.err.type = ErrorTypeConflict

-----------------------------------------------------------------------------
(* C30: in every state each ticket item's type is in the nested-item list    *)
(* of the type of the ticket that owns it.                                   *)
C30_ItemTypeNested ==
    \A i \in 1..Len(items) :
        items[i].item_type_definition_id \in
            type_definitions[tickets[items[i].ticket_id].type_definition_id]
                .item_definition_ids

-----------------------------------------------------------------------------
(* The queue of a ticket is disabled. *)
InDisabledQueue(ticket) == ~queues[ticket.queue_id].is_active

(* Handler p takes up a request of the operation op in this step. *)
Starts(p, op) == procs[p].pc = "idle" /\ procs'[p].op = op

-----------------------------------------------------------------------------
(* The place of a pc in a handler's run. *)
PcRank(pc) ==
    CASE pc = "idle"      -> 0
      [] pc = "validated" -> 1
      [] pc = "begun"     -> 2
      [] pc = "updated"   -> 3
      [] pc = "recorded"  -> 4
      [] OTHER            -> 5

(* C32: a rejection by a rule (not found, invalid transition, validation,    *)
(* type not allowed) is returned in the step that takes the request up,      *)
(* before any transaction is begun; a handler never goes back to an earlier  *)
(* step of its request, so no attempt is repeated (the number of retries,    *)
(* also of storage failures, is bounded by zero); and every request that     *)
(* was taken up returns, with success or with an error.                      *)
C32_NoRetryAndTermination ==
    /\ [][ \A p \in Procs :
             /\ (procs[p].pc # "done" /\ procs'[p] # procs[p])
                => PcRank(procs'[p].pc) > PcRank(procs[p].pc)
             /\ procs[p].pc \notin {"idle", "done"} => procs'[p].req = procs[p].req
             /\ (procs[p].pc \notin {"idle", "done"} /\ procs'[p].pc = "done"
                 /\ ~procs'[p].result.ok)
                => IsInternalError(procs'[p].result)
             /\ (procs[p].pc = "idle" /\ procs'[p].pc = "done")
                => clock' = clock ]_vars
    /\ \A p \in Procs :
          (procs[p].pc \notin {"idle", "done"}) ~> (procs[p].pc = "done")

(* C32 witness: one request was rejected as an invalid transition, another   *)
(* failed in the storage, and both have returned.                            *)
C32_Witness ==
    \E p, q \in Procs :
        /\ procs[p].pc = "done" /\ IsInvalidTransition(procs[p].result)
        /\ procs[q].pc = "done" /\ IsInternalError(procs[q].result)
        /\ procs[q].op = "TransitionTicket"

-----------------------------------------------------------------------------
-----------------------------------------------------------------------------
(* C34: in every state, each ticket's queue, its assigned employee (if any)  *)
(* and its type definition belong to one tenant.                             *)
C34_OneTenant ==
    \A i \in 1..Len(tickets) :
        LET tenant == queues[tickets[i].queue_id].tenant_id
        IN  /\ tickets[i].employee_id # 0
                => Employee[tickets[i].employee_id].tenant_id = tenant
            /\ type_definitions[tickets[i].type_definition_id].tenant_id = tenant

-----------------------------------------------------------------------------
(* The ids of the tickets whose row names the queue. *)
MembersOf(tk, queueID, tenantID) ==
    {i \in 1..Len(tk) : tk[i].queue_id = queueID /\ tk[i].tenant_id = tenantID}

-----------------------------------------------------------------------------
(* C36: a transition's commit writes its to-state and leaves the ticket in   *)
(* the queue it is in at that moment, a forward writes its target queue and  *)
(* leaves the state; so when a forward has moved the ticket between a        *)
(* transition's read and its commit and both have succeeded, the ticket is   *)
(* in the forward's target queue in the transition's to-state.               *)
C36_ForwardAndTransitionBothApply ==
    /\ [][ \A p \in Procs :
             LET i == procs[p].req.TicketID IN
             /\ Commits(p)
                => /\ tickets'[i].current_state = procs[p].nextState
                   /\ tickets'[i].queue_id = tickets[i].queue_id
                   /\ procs'[p].result.ticket.queue_id = tickets[i].queue_id
             /\ Forwards(p)
                => LET j == procs'[p].req.TicketID IN
                   /\ tickets'[j].queue_id = procs'[p].req.TargetQueueID
                   /\ tickets'[j].current_state = tickets[j].current_state ]_vars
    /\ [] \A p, q \in Procs :
             ( /\ procs[p].pc = "done" /\ procs[p].op = "TransitionTicket"
               /\ procs[p].result.ok
               /\ procs[q].pc = "done" /\ procs[q].op = "ForwardTicket"
               /\ procs[q].result.ok
               /\ procs[q].req.TicketID = procs[p].req.TicketID
               /\ procs[q].ticket.current_state = procs[p].ticket.current_state
               /\ procs[p].ticket.queue_id # procs[p].result.ticket.queue_id
               /\ procs[p].result.ticket.queue_id = procs[q].req.TargetQueueID )
             => /\ tickets[procs[p].req.TicketID].queue_id = procs[q].req.TargetQueueID
                /\ tickets[procs[p].req.TicketID].current_state
                     = procs[p].result.ticket.current_state

(* C36 witness: the forward moved the ticket between the transition's read   *)
(* and its commit, and both have returned successfully.                      *)
C36_Witness ==
    \E p, q \in Procs :
        /\ procs[p].pc = "done" /\ procs[p].op = "TransitionTicket"
        /\ procs[p].result.ok
        /\ procs[q].pc = "done" /\ procs[q].op = "ForwardTicket"
        /\ procs[q].result.ok
        /\ procs[q].req.TicketID = procs[p].req.TicketID
        /\ procs[p].ticket.queue_id = 400
        /\ procs[p].result.ticket.queue_id = 402
        /\ tickets[procs[p].req.TicketID].queue_id = 402
        /\ tickets[procs[p].req.TicketID].current_state = "in_progress"

-----------------------------------------------------------------------------
(* C37: a ticket's employee_id changes only in a step where an               *)
(* AssignEmployee on it succeeds or where a transition on it that was given  *)
(* an employee commits; a transition without an employee leaves it as it     *)
(* was.                                                                      *)
C37_EmployeeKeptWithoutEmployeeID ==
    [][ \A i \in 1..Len(tickets) :
           tickets'[i].employee_id # tickets[i].employee_id
           => \E p \in Procs :
                 \/ /\ Returns(p, "AssignEmployee")
                    /\ procs'[p].result.ok
                    /\ procs'[p].req.TicketID = i
                 \/ /\ Commits(p)
                    /\ procs[p].req.TicketID = i
                    /\ procs[p].req.EmployeeID # 0 ]_vars

-----------------------------------------------------------------------------
(* The Transition Records of state changes (the previous state is not null). *)
TransitionRecords == {k \in 1..Len(history) : history[k].previous_state # NULL}

-----------------------------------------------------------------------------
====
